---- MODULE Spec2Model ----
(***************************************************************************)
(* State-machine model of the cirrus-ops ingestion-and-mining pipeline.    *)
(*                                                                         *)
(*   SpecSync    the Gong and Zoom sync engines (gong/sync.py,             *)
(*               zoom/sync.py) over the meetings and sync_state tables     *)
(*               (db.py)                                                   *)
(*   SpecSyncLive  SpecSync with every step of a started run taken         *)
(*   SpecSyncOverlap  sync invocations that overlap                        *)
(*   SpecChildren  the participants, transcript and media steps of one     *)
(*               record (db.py, _process_batch of both engines)            *)
(*   SpecVtt     _parse_vtt (zoom/sync.py)                                 *)
(*   SpecClient  one _request call of the Gong and the Zoom client under   *)
(*               tenacity's retry, with the Zoom token cache               *)
(*               (gong/client.py, zoom/client.py)                          *)
(*   SpecRegen   regenerate requests handled concurrently                  *)
(*               (api/routers/mining.py) over generated_content            *)
(*   SpecRegenSeq  regenerate requests handled one after another           *)
(*   SpecBatch   batch_generate (mining/generator.py)                      *)
(*   SpecGenMix  batch_generate calls and regenerate requests, one after   *)
(*               another in any order                                      *)
(*   SpecDedup   _deduplicate_stories (mining/extractor.py)                *)
(*   SpecExtract extract_stories: chunking, the confidence filter and the  *)
(*               persisting of the stories (mining/extractor.py)           *)
(*   SpecKnowledge  build_knowledge_context (mining/knowledge.py)          *)
(*                                                                         *)
(* Environment assumptions, stated once:                                   *)
(*   - the data store applies each call atomically; a call that raises     *)
(*     has had no effect;                                                  *)
(*   - the per-record store calls and every remote call can raise; the     *)
(*     writes of the sync_state row (update_sync_state) return;            *)
(*   - the records a platform lists are well-formed objects, and distinct  *)
(*     source records carry distinct external ids;                        *)
(*   - the remote lists to a request only the records that start at or    *)
(*     after the from bound of the request.                                *)
(***************************************************************************)
EXTENDS Integers, Sequences, FiniteSets, TLC

(***************************************************************************)
(* Bounds of the model                                                     *)
(***************************************************************************)
\* sync invocations started one after another
MaxRuns == 2
\* page requests the remote answers, over all the runs
MaxPageRequests == 2
\* settings.sync_batch_size (config.py:28, default 50), scaled down
SyncBatchSize == 2

\* source records of a platform, and the pages the remote may answer with
Records == {1, 2}
PageChoices == {<< >>, <<1>>, <<2, 1, 2>>}

\* "no cursor" (Python None, or the empty string of Zoom's last page)
NoCursor == 0
\* last_synced_at of a platform that never completed a sync
NeverSynced == 0

Platforms == {"gong", "zoom"}
Kinds == {"bulk", "incremental"}
Steps == {"meeting", "participants", "transcript", "media"}
Outs == {"ok", "fail"}

\* invocation slots; SpecSync runs its invocations one after another in slot 1
Invs == {1, 2}
SeqInvs == {1}

VARIABLES
    meetings,       \* the meetings table: rows [id, platform, external_id]
    nextMeetingId,  \* the id the store gives the next inserted meeting row
    upserts,        \* history of the successful meeting upserts
    child,          \* the participants, transcripts and media tables, and the
                    \* sync of one record's child artifacts
    owed,           \* history: per platform, the records whose processing raised in a
                    \* run that completed idle and that no run has processed since
    syncState,      \* the sync_state table: one row per platform
    run,            \* per invocation slot: the locals of bulk_sync / incremental_sync
    runsStarted,    \* invocations started so far
    pageRequests,   \* page requests answered so far
    call,           \* per call slot: one _request call of a platform client
    zoom,           \* the ZoomClient object: its cached token and refresh time
    monotonic,      \* time.monotonic(), in seconds
    ticks,          \* clock advances so far
    callsStarted,   \* client calls started so far
    content,        \* the generated_content table
    nextContentId,  \* the id the store gives the next generated_content row
    regen,          \* per request slot: one regenerate request
    regensStarted,  \* regenerate requests started so far
    batch,          \* the batch_generate call
    batchesStarted, \* batch_generate calls started so far
    dedup,          \* the _deduplicate_stories call
    extract,        \* the extract_stories call
    knowledge,      \* the build_knowledge_context call
    vtt             \* the _parse_vtt call

syncVars == <<child, meetings, nextMeetingId, upserts, owed, syncState, run, runsStarted, pageRequests>>
clientVars == <<call, zoom, monotonic, ticks, callsStarted>>
genVars == <<content, nextContentId, regen, regensStarted, batch, batchesStarted>>
mineVars == <<dedup, extract, knowledge, vtt>>
vars == <<syncVars, clientVars, genVars, mineVars>>

Min(a, b) == IF a < b THEN a ELSE b
Last(s) == s[Len(s)]
Take(s, n) == SubSeq(s, 1, Min(n, Len(s)))
Drop(s, n) == SubSeq(s, Min(n, Len(s)) + 1, Len(s))

(***************************************************************************)
(* db.py: the data store                                                   *)
(***************************************************************************)
Keys == Platforms \X Records

KeyOf(row) == <<row.platform, row.external_id>>

RowsOf(tbl, key) == {m \in tbl : KeyOf(m) = key}

\* the insert arm of the upsert: a new row with a fresh id
InsertMeeting(tbl, nid, data) ==
    LET row == [id |-> nid, platform |-> data.platform, external_id |-> data.external_id]
    IN  [table |-> tbl \cup {row}, row |-> row, next |-> nid + 1]

\* an upsert whose conflict target is lost: every call inserts
UpsertMeetingNoConflictTarget(tbl, nid, data) == InsertMeeting(tbl, nid, data)

\* upsert(data, on_conflict="platform,external_id"); returns result.data[0]
UpsertMeeting(tbl, nid, data) ==
    LET key == <<data.platform, data.external_id>>
    IN  IF RowsOf(tbl, key) # {}
        THEN LET old == CHOOSE m \in RowsOf(tbl, key) : TRUE
                 row == [old EXCEPT !.platform = data.platform,
                                    !.external_id = data.external_id]
             IN  [table |-> (tbl \ {old}) \cup {row}, row |-> row, next |-> nid]
        ELSE InsertMeeting(tbl, nid, data)

SetSyncRunning(ss, p) ==
    [ss EXCEPT ![p].status = "running", ![p].error_message = "none"]

SetSyncComplete(ss, p, total, cur, now) ==
    [ss EXCEPT ![p].status = "idle", ![p].last_synced_at = now,
               ![p].total_synced = total, ![p].last_cursor = cur]

SetSyncError(ss, p, msg) ==
    [ss EXCEPT ![p].status = "error", ![p].error_message = msg]

(***************************************************************************)
(* Normalisation and the record's artifacts                                *)
(***************************************************************************)
\* _normalize_call / _normalize_meeting: the key columns of the meetings row
NormalizeMeeting(p, rec) == [platform |-> p, external_id |-> rec]

\* a Zoom recording with an audio_transcript VTT file that has a download_url
HasTranscript(rec) == rec # 2
\* a Zoom recording with a media file that has a download_url
HasMedia(rec) == rec # 2

(***************************************************************************)
(* gong/client.py and zoom/client.py: one call of _request                 *)
(***************************************************************************)
\* client calls started, over both slots
MaxCalls == 2
\* advances of the clock
MaxTicks == 1
TickChoices == {30}

\* stop=stop_after_attempt(6)
MaxAttempts == 6
\* _TOKEN_REFRESH_BUFFER_SECS
TokenRefreshBufferSecs == 60

Clients == {"gong", "zoom"}
CallIds == {1, 2}
\* the statuses a server answers with
StatusChoices == {200, 302, 429, 500}
\* expires_in of a token response
ExpiresInChoices == {90, 120}

\* self._access_token is None
NoToken == [acquired |-> 0, expires_in |-> 0]

IdleCall ==
    [pc |-> "idle", client |-> "gong", attempts |-> 0, bearer |-> NoToken,
     \* history of the call
     n429 |-> 0, status |-> 0, hardAt |-> 0, tokenReqs |-> 0, error |-> "none"]

(***************************************************************************)
(* mining/generator.py and routers/mining.py: generated content            *)
(***************************************************************************)
\* regenerate requests started, over both slots
MaxRegens == 2
\* batch_generate calls started
MaxBatches == 2

\* the version of a row inserted without one (ContentResponse.version)
DefaultVersion == 1

\* the story ids a request can name; only the stories in Stories exist
StoryIds == {1, 2}
Stories == {1}
\* the content types of the profile
Available == {"linkedin_post", "blog_post"}
\* the content_types lists a batch_generate call is given
TypeSeqs ==
    {<< >>, <<"blog_post">>, <<"linkedin_post", "blog_post", "linkedin_post">>,
     <<"unknown_type", "blog_post", "book_excerpt">>}
\* how one generate_content call ends
GenOutcomes == {"ok", "no_story", "llm_error", "empty_text", "insert_error"}

RegenIds == {1, 2}
SeqRegenIds == {1}

\* a generated_content row; parent_id 0 is NULL
OriginalContent ==
    [id |-> 1, story_id |-> 1, content_type |-> "linkedin_post",
     version |-> DefaultVersion, parent_id |-> 0]

IdleRegen ==
    [pc |-> "idle", content_id |-> 0, override |-> "none", story_id |-> 0,
     content_type |-> "none", record |-> 0, next_version |-> 0,
     \* history of the request
     maxBefore |-> 0, outcome |-> "none"]

IdleBatch ==
    [pc |-> "idle", story_id |-> 0, content_types |-> << >>, idx |-> 1,
     results |-> << >>,
     \* history of the call
     attempted |-> << >>, outcomes |-> << >>, raised |-> "none",
     \* the message of the error raised and the content types it names
     message |-> "none", named |-> << >>,
     \* per attempted type: the LLM calls made and the error generate_content raised
     calls |-> << >>, errors |-> << >>,
     \* nextContentId when the call began
     firstId |-> 0]

(***************************************************************************)
(* mining/extractor.py: story extraction                                   *)
(***************************************************************************)
\* candidates in the concatenated list of a chunked extraction
MaxStories == 3

\* titles as lists of character codes: 1..26 are a..z, 27..52 are A..Z
TitleChoices ==
    {<<2, 3, 4, 5, 7>>,      \* "bcdeg"
     <<28, 3, 4, 5, 7>>,     \* "Bcdeg"
     <<2, 3, 4, 5, 26>>,     \* "bcdez"
     <<25, 3, 4, 5, 26>>}    \* "ycdez"
\* confidence_score, in tenths
ScoreChoices == {3, 5, 7}

\* the candidates the model can return
Candidates == [title : TitleChoices, confidence_score : ScoreChoices]

IdleDedup ==
    [pc |-> "idle", stories |-> << >>, idx |-> 1, unique |-> << >>]

\* the longest transcript, in thousands of words
MaxWords == 116
\* CHUNK_WORD_LIMIT, CHUNK_SIZE and CHUNK_OVERLAP, in thousands of words
ChunkWordLimit == 80
ChunkSize == 60
ChunkOverlap == 5

\* the profile's confidence_threshold, in tenths; 5 is the default
ThresholdChoices == {5, 7}
\* what one extraction call of the model returns
ReturnChoices ==
    {<< >>} \cup {<<c>> : c \in {x \in Candidates :
                                   x.title \in {<<2, 3, 4, 5, 7>>, <<25, 3, 4, 5, 26>>}}}

IdleExtract ==
    [pc |-> "idle", word_count |-> 0, threshold |-> 0, chunked |-> FALSE,
     chunks |-> << >>, all_stories |-> << >>, stories |-> << >>, idx |-> 1,
     inserted |-> << >>,
     \* history of the call: the word windows sent to the model
     sent |-> << >>]

(***************************************************************************)
(* mining/knowledge.py: the knowledge context                              *)
(***************************************************************************)
\* knowledge docs of a profile
MaxDocs == 2

\* strings are modelled by their lengths, in characters
\* len("### " + "\n"), around the display name of a section
SectionPrefixLen == 5
\* remaining > 200: the least budget left for a truncated section
TruncateFloor == 200
\* the 20 characters kept back from a truncated content
TruncateReserve == 20
\* len("\n[... truncated]")
MarkerLen == 16
\* len("## Grounding Knowledge\n\n")
HeadingLen == 24
\* len("\n\n"), between two sections
SeparatorLen == 2

MaxCharsChoices == {100, 200, 201, 205, 600}
DocChoices ==
    [display_name : {1, 180}, content : {10, 94, 300},
     usage : {"both", "generation"}, sort_order : {0, 1}]
UsageChoices == {"extraction", "generation"}

IdleKnowledge ==
    [pc |-> "idle", max_chars |-> 0, filtered |-> << >>, idx |-> 1,
     total_chars |-> 0, parts |-> << >>, context |-> 0,
     \* history: the budget left when a section did not fit, 0 before that
     remaining |-> 0]

\* syncs of the child artifacts of a record, one after another
MaxChildSyncs == 2

\* _db_upsert_participants: stop_after_attempt(3)
DbAttempts == 3

\* meeting 1 is a Zoom recording with a transcript file and two media files,
\* meeting 2 is a Gong call
IdleChild ==
    [pc |-> "idle", meeting_id |-> 1, names |-> << >>, files |-> << >>,
     attempts |-> 0, syncs |-> 0, nextId |-> 1,
     participants |-> {}, transcripts |-> {}, media |-> {},
     \* history: the participant rows of the meeting when the sync began,
     \* whether the replacement of the participants failed, whether every
     \* step of the sync succeeded, and the syncs of each meeting that ended
     \* before with every step succeeding
     before |-> {}, partFailed |-> FALSE, allOk |-> FALSE,
     okSyncs |-> [m \in {1, 2} |-> 0]]

\* cues of a subtitle file
MaxCues == 2

\* the text lines a cue can hold, as lists of characters:
\* "b", "a:", "a: b: c" and " b "
TextLineChoices ==
    {<<"b">>, <<"a", ":">>, <<"a", ":", " ", "b", ":", " ", "c">>, <<" ", "b", " ">>}

\* a cue holds one or two text lines
CueChoices == UNION {[1..n -> TextLineChoices] : n \in {1, 2}}

IdleVtt ==
    [pc |-> "idle", lines |-> << >>, i |-> 1, segments |-> << >>,
     full_text_parts |-> << >>, full_text |-> << >>,
     \* history: the cues the input was made of
     cues |-> << >>]

(***************************************************************************)
(* The locals of one invocation                                            *)
(***************************************************************************)
IdleRun ==
    [pc |-> "idle", platform |-> "gong", from_date |-> NeverSynced,
     cursor |-> NoCursor, next_cursor |-> NoCursor, last_cursor |-> NoCursor,
     total_synced |-> 0, rest |-> << >>, acc |-> << >>, queue |-> << >>,
     batchLen |-> 0, processed |-> 0, final |-> FALSE,
     \* history of the invocation
     writes |-> << >>, remoteCalled |-> FALSE, pagesReq |-> 0,
     reqSent |-> NoCursor, reqPrev |-> NoCursor, respNext |-> NoCursor,
     fetched |-> 0, attempted |-> 0, recFail |-> FALSE, afterFail |-> FALSE,
     topFail |-> FALSE, outcome |-> "none",
     \* the records of this run whose last processing raised, and the number
     \* of times the processing of a record raised
     failedRecs |-> {}, raisedCount |-> 0,
     \* the steps some record of this run was due after its meeting upsert
     \* and that did not run
     skipped |-> {}]

Init ==
    /\ meetings = {}
    /\ nextMeetingId = 1
    /\ upserts = [first |-> [k \in Keys |-> 0], firstRun |-> [k \in Keys |-> 0],
                  sameId |-> TRUE, again |-> FALSE, againLater |-> FALSE]
    /\ owed = [p \in Platforms |-> {}]
    /\ child = IdleChild
    /\ syncState = [p \in Platforms |->
                      [status |-> "idle", error_message |-> "none", total_synced |-> 0,
                       last_cursor |-> NoCursor, last_synced_at |-> NeverSynced]]
    /\ run = [i \in Invs |-> IdleRun]
    /\ runsStarted = 0
    /\ pageRequests = 0
    /\ call = [c \in CallIds |-> IdleCall]
    /\ zoom = [access_token |-> NoToken, token_expires_at |-> 0]
    /\ monotonic = 0
    /\ ticks = 0
    /\ callsStarted = 0
    /\ content = {OriginalContent}
    /\ nextContentId = OriginalContent.id + 1
    /\ regen = [s \in RegenIds |-> IdleRegen]
    /\ regensStarted = 0
    /\ batch = IdleBatch
    /\ batchesStarted = 0
    /\ dedup = IdleDedup
    /\ extract = IdleExtract
    /\ knowledge = IdleKnowledge
    /\ vtt = IdleVtt

(***************************************************************************)
(* gong/sync.py and zoom/sync.py: the sync engines                         *)
(***************************************************************************)
WriteEntry(ss, p) == [status |-> ss[p].status, error_message |-> ss[p].error_message]

\* the handler that records the failure but does not re-raise
SyncFailedSwallowed(r, ss) ==
    [r EXCEPT !.pc = "done", !.outcome = "returned",
              !.writes = Append(@, WriteEntry(ss, r.platform))]

\* except Exception: db.set_sync_error(PLATFORM, ...); raise
SyncFailed(r, ss) ==
    [r EXCEPT !.pc = "done", !.outcome = "raised",
              !.writes = Append(@, WriteEntry(ss, r.platform))]

\* an exception leaves the run body of invocation i, whose locals are r
Fail(i, r) ==
    LET ss == SetSyncError(syncState, r.platform, "err")
    IN  /\ syncState' = ss
        /\ run' = [run EXCEPT ![i] = SyncFailed([r EXCEPT !.topFail = TRUE], ss)]
        /\ UNCHANGED <<clientVars, genVars, mineVars, child, meetings, nextMeetingId, upserts, owed, runsStarted,
                       pageRequests>>

\* gong: batch = calls[i : i + settings.sync_batch_size]
GongNextBatch(r) ==
    [r EXCEPT !.queue = Take(r.rest, SyncBatchSize),
              !.rest = Drop(r.rest, SyncBatchSize),
              !.batchLen = Len(Take(r.rest, SyncBatchSize)),
              !.pc = "batch"]

\* an empty page on which the loop neither leaves nor asks again
GongPageSpins(r, calls, next) ==
    IF calls = << >>
    THEN [r EXCEPT !.pc = "spin"]
    ELSE GongNextBatch([r EXCEPT !.rest = calls, !.next_cursor = next,
                                 !.fetched = @ + Len(calls)])

\* gong: the page loop body after list_calls has returned (calls, next_cursor)
GongPage(r, calls, next) ==
    IF calls = << >>
    THEN [r EXCEPT !.pc = "complete"]
    ELSE GongNextBatch([r EXCEPT !.rest = calls, !.next_cursor = next,
                                 !.fetched = @ + Len(calls)])

\* gong: after _process_batch returns: count the batch, next sub-batch or next page
GongAfterBatch(r) ==
    LET r1 == [r EXCEPT !.total_synced = @ + r.batchLen]
    IN  IF r1.rest # << >>
        THEN GongNextBatch(r1)
        ELSE [r1 EXCEPT !.last_cursor = r.next_cursor, !.cursor = r.next_cursor,
                        !.pc = IF r.next_cursor = NoCursor THEN "complete" ELSE "page"]

\* zoom: append the page's meetings to the batch until it is full; at the end of
\* the page leave the loop on a null token and process the partial batch
ZoomFill(r) ==
    IF Len(r.acc) + Len(r.rest) >= SyncBatchSize
    THEN LET k == SyncBatchSize - Len(r.acc)
         IN  [r EXCEPT !.queue = r.acc \o Take(r.rest, k), !.rest = Drop(r.rest, k),
                       !.acc = << >>, !.processed = 0, !.pc = "batch"]
    ELSE LET acc == r.acc \o r.rest
         IN  IF r.cursor # NoCursor
             THEN [r EXCEPT !.acc = acc, !.rest = << >>, !.pc = "page"]
             ELSE IF acc # << >>
                  THEN [r EXCEPT !.queue = acc, !.acc = << >>, !.rest = << >>,
                                 !.processed = 0, !.final = TRUE, !.pc = "batch"]
                  ELSE [r EXCEPT !.rest = << >>, !.pc = "complete"]

\* zoom: the page loop body after list_recordings has returned (meetings, token)
ZoomPage(r, page, next) ==
    ZoomFill([r EXCEPT !.rest = page, !.cursor = next, !.next_cursor = next,
                       !.fetched = @ + Len(page)])

\* zoom: total_synced += await _process_batch(client, batch)
ZoomAfterBatch(r) ==
    LET r1 == [r EXCEPT !.total_synced = @ + r.processed]
    IN  IF r.final THEN [r1 EXCEPT !.pc = "complete"] ELSE ZoomFill(r1)

\* datetime.utcnow() of set_sync_complete: the clock counts half days, and the
\* run numbered runNo completes at noon of day runNo
UtcNow(runNo) == 2 * runNo + 1

\* zoom: sync_state["last_synced_at"][:10], the date of the timestamp
DateOf(t) == t - (t % 2)

\* the from filter of an incremental sync: gong passes last_synced_at as
\* fromDateTime, zoom passes its date
FromDate(p, last_synced_at) ==
    IF p = "gong" THEN last_synced_at ELSE DateOf(last_synced_at)

\* the start time of a remote record: record 1 predates every sync, record 2
\* starts in the morning of day 1
RecordTime(rec) == IF rec = 1 THEN 0 ELSE 2

\* the page the remote returns under the from filter of the request
Listed(page, from) == SelectSeq(page, LAMBDA rec : RecordTime(rec) >= from)

\* the steps _process_batch runs for one record, o giving each step's outcome
StepsRun(p, rec, o) ==
    IF o["meeting"] = "fail" THEN {"meeting"}
    ELSE IF p = "gong"
         THEN IF o["participants"] = "fail"
              THEN {"meeting", "participants"}
              ELSE {"meeting", "participants", "transcript"}
         ELSE {"meeting", "participants"}
              \cup (IF HasTranscript(rec) THEN {"transcript"} ELSE {})
              \cup (IF HasMedia(rec) THEN {"media"} ELSE {})

\* the steps of a record none of whose steps fails
StepsDue(p, rec) == StepsRun(p, rec, [s \in Steps |-> "ok"])

\* the exception reaches the record's own except clause (the record is skipped)
RecordRaised(p, failed) ==
    IF p = "gong" THEN failed # {} ELSE "meeting" \in failed

\* a record failure that leaves the batch loop
RestAfterFailureAborts(queue) == << >>

\* except Exception: logger.error(...): the for loop goes on with the next record
RestAfterFailure(queue) == Tail(queue)

\* history: the id the first upsert of the key returned (0: none yet; the store's
\* ids start at 1) and the run it was in,
\* whether every later upsert of a key returned that id, and whether some key
\* was upserted again (in the same run, in a later run)
LogUpsert(h, key, id, runNo) ==
    IF h.first[key] = 0
    THEN [h EXCEPT !.first[key] = id, !.firstRun[key] = runNo]
    ELSE [h EXCEPT !.sameId = @ /\ (id = h.first[key]), !.again = TRUE,
                   !.againLater = @ \/ (runNo > h.firstRun[key])]

StartSync(i) ==
    /\ run[i].pc \in {"idle", "done"}
    /\ runsStarted < MaxRuns
    /\ pageRequests < MaxPageRequests
    /\ \E p \in Platforms, k \in Kinds :
          LET from == IF k = "incremental" THEN FromDate(p, syncState[p].last_synced_at)
                      ELSE NeverSynced
              ss == SetSyncRunning(syncState, p)
          IN  /\ syncState' = ss
              /\ run' = [run EXCEPT ![i] =
                           [IdleRun EXCEPT !.pc = IF p = "gong" THEN "users" ELSE "page",
                                           !.platform = p,
                                           !.from_date = from,
                                           !.writes = <<WriteEntry(ss, p)>>]]
    /\ runsStarted' = runsStarted + 1
    /\ UNCHANGED <<clientVars, genVars, mineVars, child, meetings, nextMeetingId, upserts, owed, pageRequests>>

\* gong: raw_users = await gong.list_users()
ListUsers(i) ==
    /\ run[i].pc = "users"
    /\ LET r == [run[i] EXCEPT !.remoteCalled = TRUE]
       IN  \/ Fail(i, r)
           \/ /\ run' = [run EXCEPT ![i] = [r EXCEPT !.pc = "page"]]
              /\ UNCHANGED <<clientVars, genVars, mineVars, child, meetings, nextMeetingId, upserts, owed, syncState, runsStarted,
                             pageRequests>>

\* one page request: gong.list_calls(cursor=cursor) / client.list_recordings(...)
FetchPage(i) ==
    /\ run[i].pc = "page"
    /\ LET r == [run[i] EXCEPT !.remoteCalled = TRUE, !.pagesReq = @ + 1,
                               !.reqSent = run[i].cursor,
                               !.reqPrev = run[i].respNext]
       IN  \/ Fail(i, r)
           \/ \E sent \in PageChoices, more \in BOOLEAN :
                 /\ pageRequests < MaxPageRequests
                 /\ more => pageRequests + 1 < MaxPageRequests
                 /\ pageRequests' = pageRequests + 1
                 /\ LET page == Listed(sent, r.from_date)
                        next == IF more THEN r.pagesReq + 1 ELSE NoCursor
                        r1 == [r EXCEPT !.respNext = next]
                    IN  run' = [run EXCEPT ![i] =
                                  IF r.platform = "gong" THEN GongPage(r1, page, next)
                                  ELSE ZoomPage(r1, page, next)]
                 /\ UNCHANGED <<clientVars, genVars, mineVars, child, meetings, nextMeetingId, upserts, owed, syncState,
                                runsStarted>>

\* one iteration of the for loop of _process_batch
ProcessRecord(i) ==
    /\ run[i].pc = "batch"
    /\ \E o \in [Steps -> Outs] :
          LET r == run[i]
              p == r.platform
              rec == Head(r.queue)
              ran == StepsRun(p, rec, o)
              failed == {s \in ran : o[s] = "fail"}
              raised == RecordRaised(p, failed)
              up == UpsertMeeting(meetings, nextMeetingId, NormalizeMeeting(p, rec))
              key == <<p, rec>>
              r1 == [r EXCEPT !.attempted = @ + 1,
                              !.afterFail = @ \/ r.recFail,
                              !.recFail = @ \/ (failed # {}),
                              !.processed = IF raised THEN @ ELSE @ + 1,
                              !.failedRecs = IF raised THEN @ \cup {rec} ELSE @ \ {rec},
                              !.raisedCount = IF raised THEN @ + 1 ELSE @,
                              !.skipped = IF o["meeting"] = "ok"
                                          THEN @ \cup (StepsDue(p, rec) \ ran) ELSE @,
                              !.queue = IF raised THEN RestAfterFailure(@) ELSE Tail(@)]
          IN  /\ IF o["meeting"] = "ok"
                 THEN /\ meetings' = up.table
                      /\ nextMeetingId' = up.next
                      /\ upserts' = LogUpsert(upserts, key, up.row.id, runsStarted)
                 ELSE UNCHANGED <<meetings, nextMeetingId, upserts>>
              /\ run' = [run EXCEPT ![i] =
                           IF r1.queue # << >> THEN r1
                           ELSE IF p = "gong" THEN GongAfterBatch(r1)
                                ELSE ZoomAfterBatch(r1)]
              /\ owed' = IF raised THEN owed ELSE [owed EXCEPT ![p] = @ \ {rec}]
              /\ UNCHANGED <<clientVars, genVars, mineVars, child, syncState, runsStarted, pageRequests>>

\* db.set_sync_complete(PLATFORM, total_synced, last_cursor); the call returns
CompleteSync(i) ==
    /\ run[i].pc = "complete"
    /\ LET r == run[i]
           cur == IF r.platform = "gong" THEN r.last_cursor ELSE NoCursor
           ss == SetSyncComplete(syncState, r.platform, r.total_synced, cur,
                                 UtcNow(runsStarted))
       IN  /\ syncState' = ss
           /\ owed' = [owed EXCEPT ![r.platform] = @ \cup r.failedRecs]
           /\ run' = [run EXCEPT ![i] =
                        [r EXCEPT !.pc = "done", !.outcome = "returned",
                                  !.writes = Append(@, WriteEntry(ss, r.platform))]]
    /\ UNCHANGED <<clientVars, genVars, mineVars, child, meetings, nextMeetingId, upserts, runsStarted, pageRequests>>

SyncNext ==
    \E i \in SeqInvs :
        \/ StartSync(i)
        \/ ListUsers(i)
        \/ FetchPage(i)
        \/ ProcessRecord(i)
        \/ CompleteSync(i)

SpecSync == Init /\ [][SyncNext]_vars

\* every call of a started invocation returns (or raises): each step of the
\* run body is taken once it can be; when an invocation starts is up to the
\* caller
SyncFairness ==
    \A i \in SeqInvs :
        /\ WF_vars(ListUsers(i))
        /\ WF_vars(FetchPage(i))
        /\ WF_vars(ProcessRecord(i))
        /\ WF_vars(CompleteSync(i))

SpecSyncLive == SpecSync /\ SyncFairness

\* invocations that overlap: nothing in the engines or in db.py keeps a
\* second invocation from starting while one is in progress
SyncOverlapNext ==
    \E i \in Invs :
        \/ StartSync(i)
        \/ ListUsers(i)
        \/ FetchPage(i)
        \/ ProcessRecord(i)
        \/ CompleteSync(i)

SpecSyncOverlap == Init /\ [][SyncOverlapNext]_vars

(***************************************************************************)
(* db.py and the engines' _process_batch: the child artifacts of a record  *)
(***************************************************************************)
\* upsert_participants: the delete, then, with participants to store, the
\* insert, as two calls of the store; o tells which of them raised
UpsertParticipants(rows, meeting_id, names, firstId, o) ==
    LET kept == {r \in rows : r.meeting_id # meeting_id}
        new == {[id |-> firstId + k - 1, meeting_id |-> meeting_id, name |-> names[k]] :
                   k \in 1..Len(names)}
    IN  CASE o = "delete_fail" -> rows
          [] o = "insert_fail" -> kept
          [] OTHER -> kept \cup new

\* upsert_transcript: upsert(data, on_conflict="meeting_id")
UpsertTranscript(rows, meeting_id, full_text) ==
    {r \in rows : r.meeting_id # meeting_id}
        \cup {[meeting_id |-> meeting_id, full_text |-> full_text]}

\* insert_media, with the fresh uuid the engine gives the row
InsertMedia(rows, id, meeting_id, media_type) ==
    rows \cup {[id |-> id, meeting_id |-> meeting_id, media_type |-> media_type]}

StartChildSync ==
    /\ child.pc \in {"idle", "done"}
    /\ child.syncs < MaxChildSyncs
    /\ \E m \in {1, 2}, names \in {<< >>, <<"x">>, <<"x", "y">>} :
          child' = [child EXCEPT
                       !.pc = "participants", !.meeting_id = m, !.names = names,
                       !.files = IF m = 1 THEN <<"audio_only", "shared_screen">>
                                 ELSE << >>,
                       !.attempts = 0, !.syncs = @ + 1,
                       !.before = {r \in child.participants : r.meeting_id = m},
                       !.partFailed = FALSE, !.allOk = TRUE,
                       !.okSyncs = IF child.pc = "done" /\ child.allOk
                                   THEN [@ EXCEPT ![child.meeting_id] = @ + 1]
                                   ELSE @]
    /\ UNCHANGED <<clientVars, genVars, mineVars, meetings, nextMeetingId, upserts, owed,
                   syncState, run, runsStarted, pageRequests>>

\* the participant step: zoom fetches the participants and calls
\* upsert_participants once; gong calls it up to three times; a failure is
\* logged by zoom, which goes on, and ends the record in gong
ParticipantsStep ==
    /\ child.pc = "participants"
    /\ \E o \in {"fetch_fail", "delete_fail", "insert_fail", "ok"} :
          /\ o = "fetch_fail" => child.meeting_id = 1
          /\ o = "insert_fail" => child.names # << >>
          /\ LET c == [child EXCEPT
                          !.participants =
                              IF o = "fetch_fail" THEN @
                              ELSE UpsertParticipants(@, child.meeting_id, child.names,
                                                      child.nextId, o),
                          !.nextId = IF o = "ok" THEN @ + Len(child.names) ELSE @,
                          !.attempts = @ + 1]
                 failed == [c EXCEPT !.partFailed = TRUE, !.allOk = FALSE]
             IN  child' =
                   IF o = "ok" THEN [c EXCEPT !.pc = "transcript"]
                   ELSE IF child.meeting_id = 1 THEN [failed EXCEPT !.pc = "transcript"]
                   ELSE IF c.attempts < DbAttempts THEN c
                   ELSE [failed EXCEPT !.pc = "done"]
    /\ UNCHANGED <<clientVars, genVars, mineVars, meetings, nextMeetingId, upserts, owed,
                   syncState, run, runsStarted, pageRequests>>

\* the transcript step: the download, then upsert_transcript
TranscriptStep ==
    /\ child.pc = "transcript"
    /\ \E ok \in BOOLEAN :
          LET c == IF ok
                   THEN [child EXCEPT !.transcripts =
                            UpsertTranscript(@, child.meeting_id, child.syncs)]
                   ELSE [child EXCEPT !.allOk = FALSE]
          IN  child' = [c EXCEPT !.pc = IF child.meeting_id = 1 THEN "media"
                                        ELSE "done"]
    /\ UNCHANGED <<clientVars, genVars, mineVars, meetings, nextMeetingId, upserts, owed,
                   syncState, run, runsStarted, pageRequests>>

\* one pass of the loop over the media files: download, upload_to_storage,
\* insert_media; a failure of any of them is logged and the loop goes on
MediaStep ==
    /\ child.pc = "media"
    /\ \E ok \in BOOLEAN :
          LET c == IF child.files = << >> THEN child
                   ELSE IF ok
                   THEN [child EXCEPT
                            !.media = InsertMedia(@, child.nextId, child.meeting_id,
                                                  Head(child.files)),
                            !.nextId = @ + 1, !.files = Tail(@)]
                   ELSE [child EXCEPT !.allOk = FALSE, !.files = Tail(@)]
          IN  child' = [c EXCEPT !.pc = IF c.files = << >> THEN "done" ELSE "media"]
    /\ UNCHANGED <<clientVars, genVars, mineVars, meetings, nextMeetingId, upserts, owed,
                   syncState, run, runsStarted, pageRequests>>

ChildNext == StartChildSync \/ ParticipantsStep \/ TranscriptStep \/ MediaStep

SpecChildren == Init /\ [][ChildNext]_vars

(***************************************************************************)
(* The platform clients: GongClient._request, ZoomClient._request and      *)
(* ZoomClient._ensure_token under tenacity's retry                         *)
(***************************************************************************)
\* response.is_success, which raise_for_status tests
IsSuccess(status) == status \div 100 = 2

\* a retry predicate that also retries server errors
IsRateLimitedOrServerError(status) == status = 429 \/ status \div 100 = 5

\* _is_rate_limited: the response (Zoom) or the raised error (Gong) is a 429
IsRateLimited(status) == status = 429

\* a stop rule that allows one attempt more
ShouldStopLate(attempt_number) == attempt_number > MaxAttempts

\* stop_after_attempt(6): no retry once attempt_number >= 6
ShouldStop(attempt_number) == attempt_number >= MaxAttempts

\* a cache test that never looks at the refresh time
TokenCachedForever(z, t) == z.access_token # NoToken

\* _ensure_token: the cached token is returned without a token request
TokenCached(z, t) == z.access_token # NoToken /\ t < z.token_expires_at

\* the request of the attempt is handed to the HTTP client
SendRequest(k, token) ==
    [k EXCEPT !.pc = "waiting", !.attempts = @ + 1, !.bearer = token]

StartCall(c) ==
    /\ call[c].pc \in {"idle", "ok", "failed"}
    /\ callsStarted < MaxCalls
    /\ callsStarted' = callsStarted + 1
    /\ \E cl \in Clients :
          call' = [call EXCEPT ![c] = [IdleCall EXCEPT !.pc = "attempt", !.client = cl]]
    /\ UNCHANGED <<syncVars, genVars, mineVars, zoom, monotonic, ticks>>

\* one attempt starts: Gong sends its request; Zoom first runs _ensure_token
BeginAttempt(c) ==
    /\ call[c].pc = "attempt"
    /\ LET k == call[c]
       IN  call' = [call EXCEPT ![c] =
                      IF k.client = "gong" THEN SendRequest(k, NoToken)
                      ELSE IF TokenCached(zoom, monotonic)
                           THEN SendRequest(k, zoom.access_token)
                           ELSE [k EXCEPT !.pc = "tokenWait", !.tokenReqs = @ + 1]]
    /\ UNCHANGED <<syncVars, genVars, mineVars, zoom, monotonic, ticks, callsStarted>>

\* the token endpoint answers: the token is cached and the request is sent, or
\* raise_for_status raises out of _request (an exception is not retried)
TokenResponse(c) ==
    /\ call[c].pc = "tokenWait"
    /\ \/ \E e \in ExpiresInChoices :
             LET tok == [acquired |-> monotonic, expires_in |-> e]
             IN  /\ zoom' = [access_token |-> tok,
                             token_expires_at |-> monotonic + e - TokenRefreshBufferSecs]
                 /\ call' = [call EXCEPT ![c] = SendRequest(call[c], tok)]
       \/ /\ call' = [call EXCEPT ![c] = [@ EXCEPT !.pc = "failed", !.error = "token"]]
          /\ UNCHANGED zoom
    /\ UNCHANGED <<syncVars, genVars, mineVars, monotonic, ticks, callsStarted>>

\* what tenacity does with the answer of an attempt
AfterResponse(k, status) ==
    LET got == [k EXCEPT !.status = status,
                         !.n429 = IF status = 429 THEN @ + 1 ELSE @]
    IN  IF IsSuccess(status) THEN [got EXCEPT !.pc = "ok"]
        ELSE IF IsRateLimited(status)
             THEN IF ShouldStop(k.attempts)
                  THEN [got EXCEPT !.pc = "failed", !.error = "rate_limited"]
                  ELSE [got EXCEPT !.pc = "attempt"]
             ELSE [got EXCEPT !.hardAt = k.attempts, !.pc = "failed", !.error = "http"]

\* the server answers the request of the attempt
Response(c) ==
    /\ call[c].pc = "waiting"
    /\ \E status \in StatusChoices :
          call' = [call EXCEPT ![c] = AfterResponse(call[c], status)]
    /\ UNCHANGED <<syncVars, genVars, mineVars, zoom, monotonic, ticks, callsStarted>>

\* the request fails without an answer (timeout, connection error)
TransportError(c) ==
    /\ call[c].pc = "waiting"
    /\ call' = [call EXCEPT ![c] = [@ EXCEPT !.pc = "failed", !.error = "transport"]]
    /\ UNCHANGED <<syncVars, genVars, mineVars, zoom, monotonic, ticks, callsStarted>>

Tick ==
    /\ ticks < MaxTicks
    /\ ticks' = ticks + 1
    /\ \E d \in TickChoices : monotonic' = monotonic + d
    /\ UNCHANGED <<syncVars, genVars, mineVars, call, zoom, callsStarted>>

ClientNext ==
    \/ \E c \in CallIds :
          \/ StartCall(c)
          \/ BeginAttempt(c)
          \/ TokenResponse(c)
          \/ Response(c)
          \/ TransportError(c)
    \/ Tick

SpecClient == Init /\ [][ClientNext]_vars

(***************************************************************************)
(* db.py: generated_content                                                *)
(***************************************************************************)
Max(S) == CHOOSE x \in S : \A y \in S : y <= x

\* the rows of one (story_id, content_type)
Lineage(rows, story_id, content_type) ==
    {r \in rows : r.story_id = story_id /\ r.content_type = content_type}

\* get_content: the row of the id, as a set of at most one row
GetContent(rows, id) == {r \in rows : r.id = id}

\* insert_content: the row gets the next id, no parent and the default version
InsertContent(rows, id, story_id, content_type) ==
    rows \cup {[id |-> id, story_id |-> story_id, content_type |-> content_type,
                version |-> DefaultVersion, parent_id |-> 0]}

\* update_content with {parent_id, version}
UpdateContent(rows, id, parent_id, version) ==
    {IF r.id = id THEN [r EXCEPT !.parent_id = parent_id, !.version = version]
     ELSE r : r \in rows}

\* get_next_version: the highest version of the pair plus one, 1 without rows
GetNextVersion(rows, story_id, content_type) ==
    LET found == Lineage(rows, story_id, content_type)
    IN  IF found # {} THEN Max({r.version : r \in found}) + 1 ELSE 1

(***************************************************************************)
(* routers/mining.py: regenerate                                           *)
(***************************************************************************)
StartRegen(s) ==
    /\ regen[s].pc \in {"idle", "done"}
    /\ regensStarted < MaxRegens
    /\ regensStarted' = regensStarted + 1
    /\ \E id \in 1..nextContentId, ct \in Available \cup {"none"} :
          regen' = [regen EXCEPT ![s] =
                       [IdleRegen EXCEPT !.pc = "get", !.content_id = id,
                                         !.override = ct]]
    /\ UNCHANGED <<syncVars, clientVars, mineVars, content, nextContentId, batch, batchesStarted>>

\* db.get_content(data.content_id); 404 when there is no such row
RegenGetContent(s) ==
    /\ regen[s].pc = "get"
    /\ LET g == regen[s]
           original == GetContent(content, g.content_id)
       IN  regen' = [regen EXCEPT ![s] =
               IF original = {} THEN [g EXCEPT !.pc = "done", !.outcome = "404"]
               ELSE LET o == CHOOSE r \in original : TRUE
                        ct == IF g.override # "none" THEN g.override
                              ELSE o.content_type
                        before == Lineage(content, o.story_id, ct)
                    IN  [g EXCEPT !.pc = "generate", !.story_id = o.story_id,
                                  !.content_type = ct,
                                  !.maxBefore =
                                      IF before = {} THEN 0
                                      ELSE Max({r.version : r \in before})]]
    /\ UNCHANGED <<syncVars, clientVars, mineVars, content, nextContentId, regensStarted,
                   batch, batchesStarted>>

\* generate_content succeeds: the new row is inserted
RegenGenerate(s) ==
    /\ regen[s].pc = "generate"
    /\ content' = InsertContent(content, nextContentId, regen[s].story_id,
                                regen[s].content_type)
    /\ nextContentId' = nextContentId + 1
    /\ regen' = [regen EXCEPT ![s] = [@ EXCEPT !.pc = "next", !.record = nextContentId]]
    /\ UNCHANGED <<syncVars, clientVars, mineVars, regensStarted, batch, batchesStarted>>

\* next_version = db.get_next_version(story_id, content_type)
RegenNextVersion(s) ==
    /\ regen[s].pc = "next"
    /\ regen' = [regen EXCEPT ![s] =
                    [@ EXCEPT !.pc = "update",
                              !.next_version =
                                  GetNextVersion(content, regen[s].story_id,
                                                 regen[s].content_type)]]
    /\ UNCHANGED <<syncVars, clientVars, mineVars, content, nextContentId, regensStarted,
                   batch, batchesStarted>>

\* db.update_content(record["id"], {parent_id, version}); the row is returned
RegenUpdate(s) ==
    /\ regen[s].pc = "update"
    /\ content' = UpdateContent(content, regen[s].record, regen[s].content_id,
                                regen[s].next_version)
    /\ regen' = [regen EXCEPT ![s] = [@ EXCEPT !.pc = "done", !.outcome = "ok"]]
    /\ UNCHANGED <<syncVars, clientVars, mineVars, nextContentId, regensStarted, batch,
                   batchesStarted>>

\* generate_content or a store call raises: HTTP 400 or 500, rows stay as they are
RegenFail(s) ==
    /\ regen[s].pc \in {"generate", "next", "update"}
    /\ regen' = [regen EXCEPT ![s] = [@ EXCEPT !.pc = "done", !.outcome = "error"]]
    /\ UNCHANGED <<syncVars, clientVars, mineVars, content, nextContentId, regensStarted,
                   batch, batchesStarted>>

RegenStep(s) ==
    \/ StartRegen(s)
    \/ RegenGetContent(s)
    \/ RegenGenerate(s)
    \/ RegenNextVersion(s)
    \/ RegenUpdate(s)
    \/ RegenFail(s)

\* the endpoint runs in the server's thread pool: requests interleave
RegenNext == \E s \in RegenIds : RegenStep(s)

SpecRegen == Init /\ [][RegenNext]_vars

\* requests sent one after another
RegenSeqNext == \E s \in SeqRegenIds : RegenStep(s)

SpecRegenSeq == Init /\ [][RegenSeqNext]_vars

(***************************************************************************)
(* mining/generator.py: batch_generate                                     *)
(***************************************************************************)
\* a validation that reports the first invalid content type only
FirstInvalidType(content_types) ==
    LET bad == SelectSeq(content_types, LAMBDA ct : ct \notin Available)
    IN  IF bad = << >> THEN << >> ELSE <<Head(bad)>>

\* invalid = [ct for ct in content_types if ct not in available]
InvalidTypes(content_types) ==
    SelectSeq(content_types, LAMBDA ct : ct \notin Available)

\* a generate_content that asks the model again when the answer has no text
GenerateContentAsksAgain(o) ==
    [llm_calls |-> IF o = "no_story" THEN 0 ELSE IF o = "empty_text" THEN 2 ELSE 1,
     inserted |-> o = "ok",
     error |-> IF o = "ok" THEN "none" ELSE "Exception"]

\* generate_content, by how far it gets: the story is looked up, the model is
\* called once, an answer without text raises RuntimeError, the row is inserted
GenerateContent(o) ==
    [llm_calls |-> IF o = "no_story" THEN 0 ELSE 1,
     inserted |-> o = "ok",
     error |-> CASE o = "ok" -> "none"
                 [] o = "no_story" -> "ValueError"
                 [] o = "empty_text" -> "RuntimeError"
                 [] OTHER -> "Exception"]

\* a failure handler that lets the exception out of batch_generate
OnGenerateFailureRaises(b) == [b EXCEPT !.pc = "done", !.raised = "Exception"]

\* except Exception: logger.exception(...); continue
OnGenerateFailure(b) == b

\* the loop goes to the next content type, or the results are returned
NextType(b) ==
    IF b.pc = "done" THEN b
    ELSE IF b.idx >= Len(b.content_types) THEN [b EXCEPT !.idx = @ + 1, !.pc = "done"]
    ELSE [b EXCEPT !.idx = @ + 1]

StartBatch ==
    /\ batch.pc \in {"idle", "done"}
    /\ batchesStarted < MaxBatches
    /\ batchesStarted' = batchesStarted + 1
    /\ \E story_id \in StoryIds, content_types \in TypeSeqs :
          batch' = [IdleBatch EXCEPT !.pc = "validate", !.story_id = story_id,
                                     !.content_types = content_types,
                                     !.firstId = nextContentId]
    /\ UNCHANGED <<syncVars, clientVars, mineVars, content, nextContentId, regen, regensStarted>>

\* the story and the content types are validated before anything is generated
ValidateBatch ==
    /\ batch.pc = "validate"
    /\ LET invalid == InvalidTypes(batch.content_types)
       IN  batch' =
             IF batch.story_id \notin Stories
             THEN [batch EXCEPT !.pc = "done", !.raised = "ValueError",
                                !.message = "story_not_found"]
             ELSE IF invalid # << >>
             THEN [batch EXCEPT !.pc = "done", !.raised = "ValueError",
                                !.message = "invalid_content_types",
                                !.named = invalid]
             ELSE IF batch.content_types = << >> THEN [batch EXCEPT !.pc = "done"]
             ELSE [batch EXCEPT !.pc = "loop"]
    /\ UNCHANGED <<syncVars, clientVars, mineVars, content, nextContentId, regen, regensStarted,
                   batchesStarted>>

\* one pass of the loop: generate_content for the next content type
GenerateOne ==
    /\ batch.pc = "loop"
    /\ LET content_type == batch.content_types[batch.idx]
       IN  \E o \in GenOutcomes :
              LET g == GenerateContent(o)
                  tried == [batch EXCEPT !.attempted = Append(@, content_type),
                                         !.outcomes = Append(@, o),
                                         !.calls = Append(@, g.llm_calls),
                                         !.errors = Append(@, g.error)]
                  record == [id |-> nextContentId, story_id |-> batch.story_id,
                             content_type |-> content_type,
                             version |-> DefaultVersion, parent_id |-> 0]
              IN  IF g.inserted
                  THEN /\ content' = InsertContent(content, nextContentId,
                                                   batch.story_id, content_type)
                       /\ nextContentId' = nextContentId + 1
                       /\ batch' = NextType([tried EXCEPT !.results = Append(@, record)])
                  ELSE /\ batch' = NextType(OnGenerateFailure(tried))
                       /\ UNCHANGED <<content, nextContentId>>
    /\ UNCHANGED <<syncVars, clientVars, mineVars, regen, regensStarted, batchesStarted>>

BatchNext == StartBatch \/ ValidateBatch \/ GenerateOne

SpecBatch == Init /\ [][BatchNext]_vars

\* batch_generate calls and regenerate requests in any order, each running
\* to its end before the next begins
GenMixNext ==
    \/ /\ \A s \in RegenIds : regen[s].pc \in {"idle", "done"}
       /\ BatchNext
    \/ /\ batch.pc \in {"idle", "done"}
       /\ RegenSeqNext

SpecGenMix == Init /\ [][GenMixNext]_vars

(***************************************************************************)
(* mining/extractor.py: _titles_are_similar and _deduplicate_stories       *)
(***************************************************************************)
\* the smallest of a set of numbers
Least(S) == CHOOSE x \in S : \A y \in S : x <= y

\* str.lower() of one character
Lower(c) == IF c > 26 THEN c - 26 ELSE c

LowerTitle(title) == [i \in 1..Len(title) |-> Lower(title[i])]

\* the length of the common run of a from i and b from j, inside the windows
RECURSIVE RunLen(_, _, _, _, _, _)
RunLen(a, i, ahi, b, j, bhi) ==
    IF i > ahi \/ j > bhi \/ a[i] # b[j] THEN 0
    ELSE 1 + RunLen(a, i + 1, ahi, b, j + 1, bhi)

\* SequenceMatcher.find_longest_match: the longest common block of the two
\* windows, the one that starts earliest in a and then earliest in b
LongestMatch(a, alo, ahi, b, blo, bhi) ==
    LET len(i, j) == RunLen(a, i, ahi, b, j, bhi)
        best == Max({len(i, j) : i \in alo..ahi, j \in blo..bhi} \cup {0})
        starts == {ij \in (alo..ahi) \X (blo..bhi) : len(ij[1], ij[2]) = best}
        i0 == Least({ij[1] : ij \in starts})
        j0 == Least({ij[2] : ij \in {x \in starts : x[1] = i0}})
    IN  IF best = 0 THEN <<0, 0, 0>> ELSE <<i0, j0, best>>

\* SequenceMatcher.get_matching_blocks: the matched characters in total
RECURSIVE Matched(_, _, _, _, _, _)
Matched(a, alo, ahi, b, blo, bhi) ==
    IF alo > ahi \/ blo > bhi THEN 0
    ELSE LET m == LongestMatch(a, alo, ahi, b, blo, bhi)
         IN  IF m[3] = 0 THEN 0
             ELSE m[3] + Matched(a, alo, m[1] - 1, b, blo, m[2] - 1)
                       + Matched(a, m[1] + m[3], ahi, b, m[2] + m[3], bhi)

\* DEDUP_SIMILARITY_THRESHOLD, in tenths
DedupSimilarityThreshold == 8

\* _titles_are_similar: ratio() = 2.0 * M / T of the lowered titles >= 0.8
TitlesAreSimilar(title_a, title_b) ==
    LET a == LowerTitle(title_a)
        b == LowerTitle(title_b)
    IN  10 * 2 * Matched(a, 1, Len(a), b, 1, Len(b))
            >= DedupSimilarityThreshold * (Len(a) + Len(b))

\* list.remove: the first element equal to x is taken out
Remove(seq, x) ==
    LET at == Least({i \in 1..Len(seq) : seq[i] = x})
    IN  [i \in 1..(Len(seq) - 1) |-> IF i < at THEN seq[i] ELSE seq[i + 1]]

\* one pass of the outer loop: the story is compared with the kept ones in
\* order, up to the first one with a similar title
DedupOne(unique, story) ==
    LET hits == {i \in 1..Len(unique) :
                    TitlesAreSimilar(story.title, unique[i].title)}
    IN  IF hits = {} THEN Append(unique, story)
        ELSE LET existing == unique[Least(hits)]
             IN  IF story.confidence_score > existing.confidence_score
                 THEN Append(Remove(unique, existing), story)
                 ELSE unique

StartDedup ==
    /\ dedup.pc = "idle"
    /\ \E n \in 0..MaxStories : \E stories \in [1..n -> Candidates] :
          dedup' = [IdleDedup EXCEPT !.pc = "loop", !.stories = stories]
    /\ UNCHANGED <<syncVars, clientVars, genVars, extract, knowledge, vtt>>

DedupStory ==
    /\ dedup.pc = "loop"
    /\ dedup.idx <= Len(dedup.stories)
    /\ dedup' = [dedup EXCEPT !.unique = DedupOne(@, dedup.stories[dedup.idx]),
                              !.idx = @ + 1]
    /\ UNCHANGED <<syncVars, clientVars, genVars, extract, knowledge, vtt>>

DedupReturn ==
    /\ dedup.pc = "loop"
    /\ dedup.idx > Len(dedup.stories)
    /\ dedup' = [dedup EXCEPT !.pc = "done"]
    /\ UNCHANGED <<syncVars, clientVars, genVars, extract, knowledge, vtt>>

DedupNext == StartDedup \/ DedupStory \/ DedupReturn

SpecDedup == Init /\ [][DedupNext]_vars

(***************************************************************************)
(* mining/extractor.py: _chunk_transcript and extract_stories              *)
(***************************************************************************)
\* a chunking without overlap
ChunkStepNoOverlap == ChunkSize

\* start += CHUNK_SIZE - CHUNK_OVERLAP
ChunkStep == ChunkSize - ChunkOverlap

\* _chunk_transcript: the windows words[start:start + CHUNK_SIZE] of a
\* transcript of n words, as <<first position, position after the last>>
RECURSIVE ChunksFrom(_, _)
ChunksFrom(start, n) ==
    IF start < n
    THEN <<(<<start, Min(n, start + ChunkSize)>>)>> \o ChunksFrom(start + ChunkStep, n)
    ELSE << >>

ChunkTranscript(n) == ChunksFrom(0, n)

\* _deduplicate_stories, the loop over the whole list
RECURSIVE DedupFrom(_, _)
DedupFrom(unique, stories) ==
    IF stories = << >> THEN unique
    ELSE DedupFrom(DedupOne(unique, Head(stories)), Tail(stories))

DeduplicateStories(stories) == DedupFrom(<< >>, stories)

\* a filter that also skips a score equal to the threshold
BelowThresholdOrEqual(story, threshold) == story.confidence_score <= threshold

\* story.get("confidence_score", 0) < threshold
BelowThreshold(story, threshold) == story.confidence_score < threshold

\* the transcript is read and the chunking is decided by its word count
StartExtract ==
    /\ extract.pc = "idle"
    /\ \E n \in 0..MaxWords, threshold \in ThresholdChoices :
          extract' = [IdleExtract EXCEPT
                         !.pc = "call", !.word_count = n, !.threshold = threshold,
                         !.chunked = (n > ChunkWordLimit),
                         !.chunks = IF n > ChunkWordLimit THEN ChunkTranscript(n)
                                    ELSE <<(<<0, n>>)>>]
    /\ UNCHANGED <<syncVars, clientVars, genVars, dedup, knowledge, vtt>>

\* _call_claude_for_stories for the next chunk, or for the full text; after
\* the last call the list is deduplicated when the transcript was chunked
CallClaude ==
    /\ extract.pc = "call"
    /\ \E returned \in ReturnChoices :
          LET e == [extract EXCEPT !.sent = Append(@, extract.chunks[Len(@) + 1]),
                                   !.all_stories = @ \o returned]
          IN  extract' =
                IF Len(e.sent) < Len(e.chunks) THEN e
                ELSE [e EXCEPT !.pc = "persist",
                               !.stories = IF e.chunked
                                           THEN DeduplicateStories(e.all_stories)
                                           ELSE e.all_stories]
    /\ UNCHANGED <<syncVars, clientVars, genVars, dedup, knowledge, vtt>>

\* one pass of the loop over the stories: skipped, or inserted
PersistStory ==
    /\ extract.pc = "persist"
    /\ extract.idx <= Len(extract.stories)
    /\ LET story == extract.stories[extract.idx]
       IN  extract' =
             IF BelowThreshold(story, extract.threshold)
             THEN [extract EXCEPT !.idx = @ + 1]
             ELSE [extract EXCEPT !.idx = @ + 1, !.inserted = Append(@, story)]
    /\ UNCHANGED <<syncVars, clientVars, genVars, dedup, knowledge, vtt>>

ExtractReturn ==
    /\ extract.pc = "persist"
    /\ extract.idx > Len(extract.stories)
    /\ extract' = [extract EXCEPT !.pc = "done"]
    /\ UNCHANGED <<syncVars, clientVars, genVars, dedup, knowledge, vtt>>

\* the model call or db.insert_story raises: extract_stories raises
ExtractFail ==
    /\ \/ extract.pc = "call"
       \/ extract.pc = "persist" /\ extract.idx <= Len(extract.stories)
                                 /\ ~BelowThreshold(extract.stories[extract.idx],
                                                    extract.threshold)
    /\ extract' = [extract EXCEPT !.pc = "raised"]
    /\ UNCHANGED <<syncVars, clientVars, genVars, dedup, knowledge, vtt>>

ExtractNext ==
    StartExtract \/ CallClaude \/ PersistStory \/ ExtractReturn \/ ExtractFail

SpecExtract == Init /\ [][ExtractNext]_vars

(***************************************************************************)
(* mining/knowledge.py: build_knowledge_context                            *)
(***************************************************************************)
\* len(content[:stop]): a negative stop counts from the end of the string
SliceLen(len, stop) ==
    IF stop >= 0 THEN Min(len, stop)
    ELSE IF len + stop > 0 THEN len + stop ELSE 0

\* if remaining > 200
MayTruncate(remaining) == remaining > TruncateFloor

\* the docs of the usage, by sort_order (list.sort is stable)
FilterAndSort(docs, usage) ==
    LET filtered == SelectSeq(docs, LAMBDA d : d.usage = "both" \/ d.usage = usage)
    IN  SelectSeq(filtered, LAMBDA d : d.sort_order = 0)
            \o SelectSeq(filtered, LAMBDA d : d.sort_order = 1)

RECURSIVE SumLen(_)
SumLen(parts) == IF parts = << >> THEN 0 ELSE Head(parts).len + SumLen(Tail(parts))

\* "## Grounding Knowledge\n\n" + "\n\n".join(parts), or "" without parts
ContextLen(parts) ==
    IF parts = << >> THEN 0
    ELSE HeadingLen + SumLen(parts) + SeparatorLen * (Len(parts) - 1)

StartKnowledge ==
    /\ knowledge.pc = "idle"
    /\ \E n \in 0..MaxDocs : \E docs \in [1..n -> DocChoices] :
          \E usage \in UsageChoices, max_chars \in MaxCharsChoices :
             knowledge' = [IdleKnowledge EXCEPT
                              !.pc = "loop", !.max_chars = max_chars,
                              !.filtered = FilterAndSort(docs, usage)]
    /\ UNCHANGED <<syncVars, clientVars, genVars, dedup, extract, vtt>>

\* one pass of the loop: the section is appended whole, or it does not fit
\* and is appended truncated or left out, which ends the loop
KnowledgeDoc ==
    /\ knowledge.pc = "loop"
    /\ knowledge.idx <= Len(knowledge.filtered)
    /\ LET doc == knowledge.filtered[knowledge.idx]
           head == SectionPrefixLen + doc.display_name
           section == head + doc.content
           remaining == knowledge.max_chars - knowledge.total_chars
           kept == SliceLen(doc.content, remaining - head - TruncateReserve)
       IN  knowledge' =
             IF knowledge.total_chars + section > knowledge.max_chars
             THEN IF MayTruncate(remaining)
                  THEN [knowledge EXCEPT
                           !.parts = Append(@, [kind |-> "truncated", content |-> kept,
                                                len |-> head + kept + MarkerLen]),
                           !.remaining = remaining, !.pc = "join"]
                  ELSE [knowledge EXCEPT !.remaining = remaining, !.pc = "join"]
             ELSE [knowledge EXCEPT
                      !.parts = Append(@, [kind |-> "whole", content |-> doc.content,
                                           len |-> section]),
                      !.total_chars = @ + section,
                      !.idx = @ + 1]
    /\ UNCHANGED <<syncVars, clientVars, genVars, dedup, extract, vtt>>

\* the loop is over: the context is joined and returned
KnowledgeReturn ==
    /\ \/ knowledge.pc = "join"
       \/ knowledge.pc = "loop" /\ knowledge.idx > Len(knowledge.filtered)
    /\ knowledge' = [knowledge EXCEPT !.pc = "done", !.context = ContextLen(knowledge.parts)]
    /\ UNCHANGED <<syncVars, clientVars, genVars, dedup, extract, vtt>>

KnowledgeNext == StartKnowledge \/ KnowledgeDoc \/ KnowledgeReturn

SpecKnowledge == Init /\ [][KnowledgeNext]_vars

(***************************************************************************)
(* zoom/sync.py: _parse_vtt                                                *)
(*                                                                         *)
(* A line is a record: ts is <<start, end>> when _TIMESTAMP_RE matches the *)
(* line and << >> otherwise, text is the line's characters.                *)
(***************************************************************************)
\* str.strip() for the space character
Strip(s) ==
    LET keep == {k \in 1..Len(s) : s[k] # " "}
    IN  IF keep = {} THEN << >> ELSE SubSeq(s, Least(keep), Max(keep))

\* sep.join(parts)
RECURSIVE JoinWith(_, _)
JoinWith(parts, sep) ==
    IF parts = << >> THEN << >>
    ELSE IF Len(parts) = 1 THEN parts[1]
    ELSE parts[1] \o sep \o JoinWith(Tail(parts), sep)

\* speaker, _, text = raw_text.partition(": "), or ("Unknown", raw_text)
SpeakerAndText(raw_text) ==
    LET at == {k \in 1..(Len(raw_text) - 1) : raw_text[k] = ":" /\ raw_text[k + 1] = " "}
    IN  IF at = {} THEN [speaker |-> <<"Unknown">>, text |-> raw_text]
        ELSE [speaker |-> SubSeq(raw_text, 1, Least(at) - 1),
              text |-> SubSeq(raw_text, Least(at) + 2, Len(raw_text))]

\* a collecting loop that takes the line after the timestamp line only
TextEndOneLine(lines, i) == Min(i + 1, Len(lines) + 1)

\* while i < len(lines) and lines[i].strip(): the index the loop stops at
TextEnd(lines, i) ==
    Least({k \in i..(Len(lines) + 1) :
              k > Len(lines) \/ Strip(lines[k].text) = << >>})

\* the lines of a file: a header and a blank line if hdr, then each cue as a
\* timestamp line, its text lines and a blank line, the last blank line
\* being there only if trailing
RECURSIVE CueLines(_, _, _)
CueLines(cues, k, trailing) ==
    IF k > Len(cues) THEN << >>
    ELSE <<[ts |-> <<2 * k, 2 * k + 1>>, text |-> <<"t">>]>>
            \o [j \in 1..Len(cues[k]) |-> [ts |-> << >>, text |-> cues[k][j]]]
            \o (IF k < Len(cues) \/ trailing
                THEN <<[ts |-> << >>, text |-> << >>]>> ELSE << >>)
            \o CueLines(cues, k + 1, trailing)

StartParseVtt ==
    /\ vtt.pc = "idle"
    /\ \E n \in 0..MaxCues : \E cues \in [1..n -> CueChoices] :
          \E hdr, trailing \in BOOLEAN :
             vtt' = [IdleVtt EXCEPT
                        !.pc = "header", !.cues = cues,
                        !.lines = (IF hdr THEN <<[ts |-> << >>, text |-> <<"W">>],
                                                 [ts |-> << >>, text |-> << >>]>>
                                   ELSE << >>) \o CueLines(cues, 1, trailing)]
    /\ UNCHANGED <<syncVars, clientVars, genVars, dedup, extract, knowledge>>

\* while i < len(lines) and not _TIMESTAMP_RE.search(lines[i]): i += 1
SkipHeader ==
    /\ vtt.pc = "header"
    /\ vtt' = [vtt EXCEPT
                  !.pc = "loop",
                  !.i = Least({k \in 1..(Len(vtt.lines) + 1) :
                                 k > Len(vtt.lines) \/ vtt.lines[k].ts # << >>})]
    /\ UNCHANGED <<syncVars, clientVars, genVars, dedup, extract, knowledge>>

\* one pass of the main loop: a timestamp line starts a cue, whose text
\* lines are collected; any other line is passed over
ParseLine ==
    /\ vtt.pc = "loop"
    /\ vtt.i <= Len(vtt.lines)
    /\ LET line == vtt.lines[vtt.i]
           stop == TextEnd(vtt.lines, vtt.i + 1)
           text_lines == [k \in 1..(stop - vtt.i - 1) |->
                             Strip(vtt.lines[vtt.i + k].text)]
           st == SpeakerAndText(JoinWith(text_lines, <<" ">>))
       IN  vtt' = IF line.ts # << >>
                  THEN [vtt EXCEPT
                           !.i = stop,
                           !.segments = Append(@, [speaker |-> st.speaker,
                                                   text |-> st.text,
                                                   start_time |-> line.ts[1],
                                                   end_time |-> line.ts[2]]),
                           !.full_text_parts = Append(@, st.text)]
                  ELSE [vtt EXCEPT !.i = @ + 1]
    /\ UNCHANGED <<syncVars, clientVars, genVars, dedup, extract, knowledge>>

\* full_text = "\n".join(full_text_parts); return full_text, segments
ParseReturn ==
    /\ vtt.pc = "loop"
    /\ vtt.i > Len(vtt.lines)
    /\ vtt' = [vtt EXCEPT !.pc = "done",
                          !.full_text = JoinWith(vtt.full_text_parts, <<"\n">>)]
    /\ UNCHANGED <<syncVars, clientVars, genVars, dedup, extract, knowledge>>

VttNext == StartParseVtt \/ SkipHeader \/ ParseLine \/ ParseReturn

SpecVtt == Init /\ [][VttNext]_vars

(***************************************************************************)
(* Properties of the sync engines                                          *)
(***************************************************************************)
StatusWrites(r) == [k \in 1..Len(r.writes) |-> r.writes[k].status]

\* the server has answered the last page request with a null cursor
PaginationExhausted(r) == r.pagesReq >= 1 /\ r.respNext = NoCursor

\* C1: whatever the sequence of Gong and Zoom runs, a (platform, external_id)
\* key whose record was upserted has exactly one meetings row, no key ever has
\* two, and every later upsert of the key returned the id of the first
C1_IdempotentUpsert ==
    /\ \A k \in Keys :
          /\ Cardinality(RowsOf(meetings, k)) <= 1
          /\ upserts.first[k] # 0 =>
                RowsOf(meetings, k) =
                    {[id |-> upserts.first[k], platform |-> k[1], external_id |-> k[2]]}
    /\ upserts.sameId

\* a record upserted in one run has been upserted again in a later run
C1_Witness == upserts.againLater

\* C2: a record whose processing fails never takes another record out of the
\* run (every fetched record is processed or still waiting), and a run in which
\* only records failed returns with status idle
C2_RecordFailureIsolated ==
    \A i \in SeqInvs :
        LET r == run[i]
        IN  /\ r.fetched = r.attempted + Len(r.queue) + Len(r.rest) + Len(r.acc)
            /\ (r.pc = "done" /\ ~r.topFail) =>
                  /\ r.outcome = "returned"
                  /\ r.attempted = r.fetched
                  /\ Last(r.writes).status = "idle"
                  /\ syncState[r.platform].status = "idle"
            /\ r.outcome = "raised" => r.topFail

\* a run that returned although a record failed and records followed it
C2_Witness ==
    \E i \in SeqInvs :
        /\ run[i].pc = "done" /\ run[i].outcome = "returned"
        /\ run[i].recFail /\ run[i].afterFail
        /\ syncState[run[i].platform].status = "idle"

\* C3: running, with the error cleared, is written before the first remote
\* call; the statuses an invocation writes are running, then idle or error;
\* idle is written only once the server has answered with a null cursor
C3_StatusProtocol ==
    \A i \in SeqInvs :
        LET r == run[i]
        IN  /\ r.remoteCalled =>
                  /\ Len(r.writes) >= 1
                  /\ r.writes[1] = [status |-> "running", error_message |-> "none"]
            /\ StatusWrites(r) \in {<< >>, <<"running">>, <<"running", "idle">>,
                                    <<"running", "error">>}
            /\ (\E k \in 1..Len(r.writes) : r.writes[k].status = "idle") =>
                  PaginationExhausted(r)

\* C4: once an exception has left the run body, the invocation has written
\* running then error with an error summary, has raised to its caller and has
\* written no idle
C4_TopLevelFailureRecorded ==
    \A i \in SeqInvs :
        LET r == run[i]
        IN  r.topFail =>
               /\ r.pc = "done"
               /\ r.outcome = "raised"
               /\ StatusWrites(r) = <<"running", "error">>
               /\ Last(r.writes).error_message # "none"
               /\ syncState[r.platform].status = "error"
               /\ syncState[r.platform].error_message # "none"

\* a page request of a run that had already processed records has failed
C4_Witness ==
    \E i \in SeqInvs : run[i].topFail /\ run[i].pagesReq >= 2 /\ run[i].attempted >= 1

\* C5: every page request passes the cursor the previous page returned, no
\* request follows a null cursor, and the page loop is left only on a null cursor
C5_PaginationFollowed ==
    \A i \in SeqInvs :
        LET r == run[i]
        IN  /\ r.pagesReq >= 1 => r.reqSent = r.reqPrev
            /\ r.pagesReq >= 2 => r.reqPrev # NoCursor
            /\ (r.pc = "complete" \/ (r.pc = "done" /\ ~r.topFail)) =>
                  PaginationExhausted(r)

(***************************************************************************)
(* Properties of the platform clients                                      *)
(***************************************************************************)
\* C6: a client call makes at most 6 HTTP attempts; a call that succeeded
\* made exactly one attempt more than the 429 answers it received, and a 2xx
\* answer ends the call as a success; a call that received six 429 answers
\* has failed with the retry budget exhausted after exactly 6 attempts.
C6_RetryBudget ==
    \A c \in CallIds :
        LET k == call[c]
        IN  /\ k.attempts <= MaxAttempts
            /\ k.n429 <= MaxAttempts
            /\ (k.pc = "ok" => IsSuccess(k.status) /\ k.attempts = k.n429 + 1)
            /\ (IsSuccess(k.status) => k.pc = "ok")
            /\ (k.status = 429 /\ k.n429 < MaxAttempts
                    => k.pc \in {"attempt", "tokenWait", "waiting"}
                       \/ (k.pc = "failed" /\ k.error \in {"token", "transport"}))
            /\ (k.n429 = MaxAttempts
                    => k.pc = "failed" /\ k.error = "rate_limited"
                       /\ k.attempts = MaxAttempts)

\* one call succeeded on its 6th attempt after five 429 answers, the other
\* call, of the other client, failed after six 429 answers
C6_Witness ==
    \E c, d \in CallIds :
        /\ call[c].client # call[d].client
        /\ call[c].pc = "ok" /\ call[c].n429 = 5 /\ call[c].attempts = 6
        /\ call[d].pc = "failed" /\ call[d].n429 = 6 /\ call[d].attempts = 6

\* C7: once an attempt of a call, of either client, was answered with a
\* non-2xx status other than 429, the call has failed with that error and no
\* attempt was made after the one that was answered so.
C7_HardFailureNoRetry ==
    \A c \in CallIds :
        LET k == call[c]
        IN  (k.status # 0 /\ ~IsSuccess(k.status) /\ k.status # 429)
                => /\ k.pc = "failed"
                   /\ k.error = "http"
                   /\ k.hardAt = k.attempts

\* a Gong call failed on a 302 at its first attempt and a Zoom call failed on
\* a 500 after two 429 answers
C7_Witness ==
    \E c, d \in CallIds :
        /\ call[c].client = "gong" /\ call[c].status = 302 /\ call[c].hardAt = 1
        /\ call[d].client = "zoom" /\ call[d].status = 500 /\ call[d].hardAt = 3
        /\ call[c].pc = "failed" /\ call[d].pc = "failed"

(***************************************************************************)
(* Properties of content generation                                        *)
(***************************************************************************)
\* the rows whose version is settled: the original and the rows a regenerate
\* request has updated
Versioned(rows) == {r \in rows : r = OriginalContent \/ r.parent_id # 0}

\* C8: whatever the interleaving of two concurrent regenerate requests for
\* the original record at version 1, the two new records end with the
\* versions 2 and 3, and no version is given to two records of one
\* (story, content_type).
C8_ConcurrentVersionsDistinct ==
    /\ \A r, q \in Versioned(content) :
          (r.id # q.id /\ r.story_id = q.story_id /\ r.content_type = q.content_type)
              => r.version # q.version
    /\ (\A s \in RegenIds :
           /\ regen[s].outcome = "ok"
           /\ regen[s].content_id = OriginalContent.id
           /\ regen[s].override = "none")
         => {r.version : r \in {q \in content :
                                  \E s \in RegenIds : q.id = regen[s].record}}
               = {2, 3}

\* C9: in requests sent one after another, the record a successful
\* regenerate request created has the regenerated record as its parent and a
\* version one above the highest version its (story, content_type) had when
\* the request began; the records regenerated in the original's lineage get
\* the versions 2, 3, ... in the order of their creation.
C9_SequentialVersioning ==
    /\ \A s \in SeqRegenIds :
          regen[s].outcome = "ok"
              => \E r \in content :
                    /\ r.id = regen[s].record
                    /\ r.parent_id = regen[s].content_id
                    /\ r.version = regen[s].maxBefore + 1
    /\ \A r \in Lineage(content, OriginalContent.story_id, OriginalContent.content_type) :
          r.parent_id # 0
              => r.version =
                    2 + Cardinality({q \in Lineage(content, r.story_id, r.content_type) :
                                        q.parent_id # 0 /\ q.id < r.id})

\* the content types, among those attempted, whose generation succeeded
RECURSIVE Succeeded(_, _)
Succeeded(types, outs) ==
    IF types = << >> THEN << >>
    ELSE IF Head(outs) = "ok" THEN <<Head(types)>> \o Succeeded(Tail(types), Tail(outs))
    ELSE Succeeded(Tail(types), Tail(outs))

\* C10: a batch_generate call that passed validation never raises: it
\* attempts the requested types in request order, all of them by the time it
\* returns, and returns exactly the records of the types that succeeded, so
\* that it returns as many records as requested exactly when no type failed.
C10_BatchContinuesPastFailures ==
    /\ batch.raised # "none" => batch.attempted = << >>
    /\ Len(batch.attempted) <= Len(batch.content_types)
    /\ batch.attempted = Take(batch.content_types, Len(batch.attempted))
    /\ [j \in 1..Len(batch.results) |-> batch.results[j].content_type]
          = Succeeded(batch.attempted, batch.outcomes)
    /\ \A j \in 1..Len(batch.results) : batch.results[j] \in content
    /\ (batch.pc = "done" /\ batch.raised = "none")
          => /\ batch.attempted = batch.content_types
             /\ (Len(batch.results) = Len(batch.content_types)
                    <=> \A i \in 1..Len(batch.outcomes) : batch.outcomes[i] = "ok")

\* three types were requested, the 2nd failed on a hard error, and the call
\* returned the two other records
C10_Witness ==
    /\ batch.pc = "done"
    /\ batch.raised = "none"
    /\ Len(batch.content_types) = 3
    /\ batch.outcomes = <<"ok", "llm_error", "ok">>
    /\ Len(batch.results) = 2

\* the content types of a list, as a set
TypesIn(types) == {types[i] : i \in 1..Len(types)}

\* C11 as stated: whenever the story does not exist or a requested content
\* type is not configured, batch_generate fails with an error naming every
\* invalid type, before any LLM call and before any row is inserted.
C11_AsStated ==
    (/\ batch.pc = "done"
     /\ \/ batch.story_id \notin Stories
        \/ TypesIn(batch.content_types) \ Available # {})
        => /\ batch.raised # "none"
           /\ TypesIn(batch.named) = TypesIn(batch.content_types) \ Available
           /\ batch.calls = << >>
           /\ nextContentId = batch.firstId

\* C11: batch_generate fails before any LLM call and before any row is
\* inserted when the story does not exist, with a story-not-found error, and
\* when the story exists and a requested content type is not configured, with
\* an error that names every invalid type and no valid one.
C11_ValidationFailsFast ==
    /\ batch.raised # "none"
          => /\ batch.calls = << >>
             /\ batch.attempted = << >>
             /\ batch.results = << >>
             /\ nextContentId = batch.firstId
    /\ (batch.pc = "done" /\ batch.story_id \notin Stories)
          => /\ batch.raised = "ValueError"
             /\ batch.message = "story_not_found"
             /\ batch.named = << >>
    /\ (/\ batch.pc = "done"
        /\ batch.story_id \in Stories
        /\ TypesIn(batch.content_types) \ Available # {})
          => /\ batch.raised = "ValueError"
             /\ batch.message = "invalid_content_types"
             /\ TypesIn(batch.named) = TypesIn(batch.content_types) \ Available

\* a call for an existing story with one valid and two invalid types failed,
\* naming the two, with nothing generated
C11_Witness ==
    /\ batch.pc = "done"
    /\ batch.story_id \in Stories
    /\ batch.content_types = <<"unknown_type", "blog_post", "book_excerpt">>
    /\ batch.named = <<"unknown_type", "book_excerpt">>
    /\ nextContentId = batch.firstId

(***************************************************************************)
(* Properties of story extraction                                          *)
(***************************************************************************)
\* the candidates a list holds
Among(seq) == {seq[i] : i \in 1..Len(seq)}

\* C12: after deduplication, of two input candidates with similar titles
\* (case-insensitive ratio >= 0.8) at most one is among the survivors, and
\* it is not the one with the strictly lower confidence_score; no two
\* survivors have similar titles.
C12_DedupKeepsBestOfSimilar ==
    dedup.pc = "done"
        => /\ \A i, j \in 1..Len(dedup.stories) :
                 LET s == dedup.stories[i]
                     t == dedup.stories[j]
                 IN  (i # j /\ s # t /\ TitlesAreSimilar(s.title, t.title))
                        => /\ ~(s \in Among(dedup.unique) /\ t \in Among(dedup.unique))
                           /\ (s.confidence_score < t.confidence_score
                                  => s \notin Among(dedup.unique)
                                     \/ t \in Among(dedup.unique))
           /\ \A i, j \in 1..Len(dedup.unique) :
                 i # j => ~TitlesAreSimilar(dedup.unique[i].title, dedup.unique[j].title)

\* C13: extract_stories never inserts a candidate whose confidence_score is
\* below the profile's threshold, and when it returns, a candidate of the
\* list it persists from is inserted if and only if its score is greater
\* than or equal to the threshold.
C13_ConfidenceFilter ==
    /\ \A i \in 1..Len(extract.inserted) :
          extract.inserted[i].confidence_score >= extract.threshold
    /\ extract.pc = "done"
          => /\ \A i \in 1..Len(extract.stories) :
                   extract.stories[i] \in Among(extract.inserted)
                      <=> extract.stories[i].confidence_score >= extract.threshold
             /\ Len(extract.inserted)
                   = Cardinality({i \in 1..Len(extract.stories) :
                                     extract.stories[i].confidence_score
                                        >= extract.threshold})

\* with the default threshold 0.5, a candidate at 0.5 was inserted and a
\* candidate at 0.3 was not
C13_Witness ==
    /\ extract.pc = "done"
    /\ extract.threshold = 5
    /\ \E i, j \in 1..Len(extract.stories) :
          /\ extract.stories[i].confidence_score = 5
          /\ extract.stories[i] \in Among(extract.inserted)
          /\ extract.stories[j].confidence_score = 3
          /\ extract.stories[j] \notin Among(extract.inserted)

\* C15: a transcript of n words, n > 80,000, is sent to the model as the
\* chunks [55,000 k, min(n, 55,000 k + 60,000)) for k = 0, 1, ... while
\* 55,000 k < n, in that order, so that every word is in a chunk and each
\* chunk starts 5,000 words before the end of the 60,000-word window of the
\* previous one; a transcript of at most 80,000 words is sent whole in one
\* call. (Lengths are in thousands of words.)
C15_ChunkWindows ==
    extract.pc \in {"persist", "done"}
        => LET n == extract.word_count
               ks == {k \in 0..MaxWords : 55 * k < n}
           IN  IF n > 80
               THEN /\ Len(extract.sent) = Cardinality(ks)
                    /\ \A k \in ks :
                          extract.sent[k + 1]
                             = <<55 * k, IF n < 55 * k + 60 THEN n ELSE 55 * k + 60>>
                    /\ \A w \in 0..(n - 1) :
                          \E c \in 1..Len(extract.sent) :
                             extract.sent[c][1] <= w /\ w < extract.sent[c][2]
                    /\ \A c \in 2..Len(extract.sent) :
                          extract.sent[c][1] = extract.sent[c - 1][1] + 60 - 5
               ELSE extract.sent = <<(<<0, n>>)>>

\* a transcript of 112,000 words went out in three chunks, the last one the
\* words from 110,000 on
C15_Witness ==
    /\ extract.pc = "done"
    /\ extract.word_count = 112
    /\ Len(extract.sent) = 3
    /\ extract.sent[3] = <<110, 112>>

C14_ContextWithinBudget ==
    knowledge.pc = "done" => knowledge.context <= knowledge.max_chars

(***************************************************************************)
(* Properties of the Zoom token                                            *)
(***************************************************************************)
\* C16: of the calls that run concurrently on the Zoom client, at most one
\* has a token request in flight at any time.
C16_TokenSingleFlight ==
    Cardinality({c \in CallIds : call[c].pc = "tokenWait"}) <= 1

\* C17: every Zoom API request goes out with a token the token endpoint
\* gave: either the cached one, and then the clock is earlier than its
\* acquisition time plus expires_in minus 60 seconds, or one acquired by
\* this call just before sending; from that instant on a call acquires a
\* new token first.
C17_TokenFreshness ==
    [][\A c \in CallIds :
          (call[c].client = "zoom" /\ call[c].pc # "waiting"
              /\ call'[c].pc = "waiting")
              => LET bearer == call'[c].bearer
                 IN  /\ bearer # NoToken
                     /\ \/ /\ call[c].pc = "attempt"
                           /\ bearer = zoom.access_token
                           /\ monotonic < bearer.acquired + bearer.expires_in - 60
                        \/ /\ call[c].pc = "tokenWait"
                           /\ bearer.acquired = monotonic
                           /\ bearer = zoom'.access_token]_vars

\* at 30 seconds a Zoom call is out with a token acquired at 30, while the
\* other call had used a token acquired at 0 with expires_in 90
C17_Witness ==
    \E c, d \in CallIds :
        /\ call[d].client = "zoom"
        /\ call[d].bearer = [acquired |-> 0, expires_in |-> 90]
        /\ call[d].pc = "ok"
        /\ call[c].client = "zoom"
        /\ call[c].pc = "waiting"
        /\ call[c].tokenReqs = 1
        /\ call[c].bearer.acquired = 30


\* C18: at-least-once ingestion: a record whose processing raised in a run that
\* completed idle, and that no run has processed since, is within the from
\* filter of every sync started afterwards, so that the remote lists it again
C18_FailedRecordsListedAgain ==
    \A i \in Invs :
        run[i].pc # "idle" =>
            \A rec \in owed[run[i].platform] : RecordTime(rec) >= run[i].from_date


\* C19: within one record only a failure of the meeting upsert stops the
\* record: when the meeting upsert succeeded, every later step the record is
\* due (participants, transcript, media) runs whatever the steps before it
\* did, in both engines
C19_StepsIsolated ==
    \A i \in Invs : run[i].skipped = {}


\* C21: every started sync invocation ends, returning or raising, and the
\* last status an ended invocation wrote is idle or error, never running
C21_SyncTerminates ==
    /\ [](\A i \in SeqInvs :
            run[i].pc = "done" => Last(run[i].writes).status \in {"idle", "error"})
    /\ \A i \in SeqInvs :
          (run[i].pc \notin {"idle", "done"}) ~> (run[i].pc = "done")

\* a Gong run that asked for two pages and processed records has returned
\* with idle as its last status
C21_Witness ==
    \E i \in SeqInvs :
        /\ run[i].pc = "done" /\ run[i].outcome = "returned"
        /\ run[i].platform = "gong"
        /\ run[i].pagesReq = 2 /\ run[i].attempted >= 2
        /\ Last(run[i].writes).status = "idle"


\* C22: a doc whose section does not fit the budget is appended in truncated
\* form exactly when at least 200 characters of the budget remain (200
\* included), and is left out when fewer remain
C22_TruncateFromFloor ==
    knowledge.pc = "join" =>
        ((knowledge.parts # << >> /\ Last(knowledge.parts).kind = "truncated")
            <=> knowledge.remaining >= TruncateFloor)


\* C23: a truncated block build_knowledge_context emits holds at least one
\* character of the doc's content between its heading line and the marker
C23_TruncatedBlockHasContent ==
    \A k \in 1..Len(knowledge.parts) :
        knowledge.parts[k].kind = "truncated" => knowledge.parts[k].content >= 1


\* C24: of two candidates with similar titles and equal confidence_score,
\* each occurring once in the list, deduplication discards the later one, and
\* keeps the earlier one unless a candidate of strictly higher score has a
\* title similar to it
C24_TieKeepsFirst ==
    dedup.pc = "done"
        => \A i, j \in 1..Len(dedup.stories) :
              LET first == dedup.stories[i]
                  later == dedup.stories[j]
                  once(s) == Cardinality({k \in 1..Len(dedup.stories) :
                                             dedup.stories[k] = s}) = 1
              IN  (/\ i < j
                   /\ once(first) /\ once(later)
                   /\ TitlesAreSimilar(first.title, later.title)
                   /\ first.confidence_score = later.confidence_score)
                      => /\ later \notin Among(dedup.unique)
                         /\ \/ first \in Among(dedup.unique)
                            \/ \E k \in 1..Len(dedup.stories) :
                                  /\ TitlesAreSimilar(dedup.stories[k].title, first.title)
                                  /\ dedup.stories[k].confidence_score
                                        > first.confidence_score


\* C25: for an input made of header lines and cue blocks, _parse_vtt returns
\* one segment per cue, in input order and with the cue's times; the speaker
\* is what stands before the first ": " of the cue's text lines joined by
\* spaces (Unknown without one) and the text is the rest; full_text is the
\* segment texts joined by newlines
C25_OneSegmentPerCue ==
    vtt.pc = "done"
        => /\ Len(vtt.segments) = Len(vtt.cues)
           /\ \A k \in 1..Len(vtt.cues) :
                 LET cue == vtt.cues[k]
                     joined == JoinWith([j \in 1..Len(cue) |-> Strip(cue[j])], <<" ">>)
                     colons == {n \in 1..(Len(joined) - 1) :
                                   joined[n] = ":" /\ joined[n + 1] = " "}
                     seg == vtt.segments[k]
                 IN  /\ seg.start_time = 2 * k /\ seg.end_time = 2 * k + 1
                     /\ IF colons = {}
                        THEN seg.speaker = <<"Unknown">> /\ seg.text = joined
                        ELSE /\ seg.speaker \o <<":", " ">> \o seg.text = joined
                             /\ \A n \in colons : n > Len(seg.speaker)
           /\ vtt.full_text =
                 JoinWith([k \in 1..Len(vtt.segments) |-> vtt.segments[k].text], <<"\n">>)

\* a file with a header and two cues was parsed: the first cue has two text
\* lines whose join makes the speaker prefix, the second has none
C25_Witness ==
    /\ vtt.pc = "done"
    /\ Len(vtt.cues) = 2
    /\ Len(vtt.segments) = 2
    /\ vtt.lines[1].text = <<"W">>
    /\ vtt.cues[1] = <<<<"a", ":">>, <<" ", "b", " ">>>>
    /\ vtt.cues[2] = <<<<"b">>>>
    /\ vtt.segments[1].speaker = <<"a">> /\ vtt.segments[1].text = <<"b">>
    /\ vtt.segments[2].speaker = <<"Unknown">>


\* C26: the total_synced a run that completed has written is the number of
\* records of the run whose processing did not raise, in both engines
C26_TotalCountsSuccesses ==
    \A i \in SeqInvs :
        (run[i].pc = "done" /\ run[i].outcome = "returned")
            => syncState[run[i].platform].total_synced
                  = run[i].attempted - run[i].raisedCount


\* C27: while an invocation for a platform is in progress, after its write
\* of running and before its final status write, the platform's status is
\* running, also when invocations for the platform overlap
C27_RunningWhileInProgress ==
    \A i \in Invs :
        run[i].pc \notin {"idle", "done"}
            => syncState[run[i].platform].status = "running"


\* C28: once every generate_content, batch_generate and regenerate call of a
\* sequential mix has ended, no two rows of one (story, content_type) carry
\* the same version
C28_VersionsDistinct ==
    (/\ batch.pc \in {"idle", "done"}
     /\ \A s \in RegenIds : regen[s].pc \in {"idle", "done"})
        => \A r, q \in content :
              (r.id # q.id /\ r.story_id = q.story_id /\ r.content_type = q.content_type)
                  => r.version # q.version


\* C29: when the replacement of a meeting's participants has failed, the
\* participant rows the meeting had before the sync are still stored
C29_ParticipantsAllOrNothing ==
    child.partFailed => child.before \subseteq child.participants

\* C30: once the same Zoom recording has been synced twice with every step
\* succeeding, the meeting has exactly one transcript row and exactly one
\* media row per recording type
C30_ChildResyncIdempotent ==
    (/\ child.pc = "done" /\ child.allOk
     /\ child.meeting_id = 1
     /\ child.okSyncs[1] >= 1)
        => /\ Cardinality({r \in child.transcripts : r.meeting_id = 1}) = 1
           /\ \A t \in {"audio_only", "shared_screen"} :
                 Cardinality({r \in child.media :
                                 r.meeting_id = 1 /\ r.media_type = t}) = 1

====
